---- MODULE Spec2Model ----
(***************************************************************************)
(* Model of the in-memory ledger of src/src/index.ts: the chain, the       *)
(* pending pool, transaction and chain validation, proof-of-work mining    *)
(* and the balance query.  Every function of the source is synchronous,    *)
(* so one call of addPendingTransaction or minePendingTransactions is one  *)
(* step.                                                                   *)
(*                                                                         *)
(* Strings and digests.  A string built by concatenation is modelled by    *)
(* the tuple of the pieces concatenated (addresses, digests and            *)
(* timestamps have fixed widths, so the pieces can be read back from the   *)
(* string).  SHA256 is modelled as collision free on these strings: the    *)
(* digest keeps the hashed string in `body`; its leading hexadecimal       *)
(* characters, which the miner inspects, are the digits `lead`, a          *)
(* deterministic function of a numeric code of the hashed string.          *)
(*                                                                         *)
(* Clock.  generateTimestamp reads `now`.  The clock stands still except   *)
(* during the nonce search of a mine that commits, which takes it to the   *)
(* next millisecond; so two calls may fall in the same millisecond, and a  *)
(* caller may send again a transfer signed a millisecond earlier.          *)
(***************************************************************************)
EXTENDS Integers, Sequences, FiniteSets, TLC

\* ---- program constants ----
DIFFICULTY == 3
MINING_REWARD == 10000

\* ---- bounds of the model ----
MaxChain == 3      \* blocks in the chain, genesis included
MaxTransactions == 2   \* transactions admitted in all, pending or mined
HexBase == 2       \* size of the digit alphabet of a digest

\* ---- input domains ----
Undefined == "undefined"
Addresses == {"W", "A", "B"}
Miners == {"W", "A"}
\* three fifths of a reward: one transfer fits in a reward, two do not
TransferAmount == (MINING_REWARD \div 5) * 3
Amounts == {0, TransferAmount}
Metas == {Undefined}
RewardMeta == "mining reward"
NoTime == -1
Forger == "F"

\* chain, pendingTransactions: the module's two arrays; now: the millisecond clock;
\* lastCall: the function called last, what it returned and the last line it logged
VARIABLES chain, pendingTransactions, now, lastCall

vars == <<chain, pendingTransactions, now, lastCall>>

\* ---- hashing ----
RECURSIVE Pow(_, _)
Pow(b, e) == IF e = 0 THEN 1 ELSE b * Pow(b, e - 1)

RECURSIVE Digits(_, _)
Digits(n, k) == IF k = 0 THEN <<>> ELSE Append(Digits(n \div HexBase, k - 1), n % HexBase)

\* hash.substring(0, DIFFICULTY): the leading characters of the digest of a string with
\* numeric code `code`
Modulus == Pow(HexBase, DIFFICULTY)

HashLead(code) == Digits(code % Modulus, DIFFICULTY)

SHA256(text, code) == [body |-> text, lead |-> HashLead(code)]

RECURSIVE LeadCode(_)
LeadCode(digits) ==
  IF digits = <<>> THEN 0
  ELSE LeadCode(SubSeq(digits, 1, Len(digits) - 1)) * HexBase + digits[Len(digits)]

\* meta is an object or undefined: string concatenation renders every object the same
MetaString(meta) == IF meta = Undefined THEN "undefined" ELSE "[object Object]"

MetaCode(meta) == IF meta = Undefined THEN 0 ELSE 1

AddressCode(a) == CASE a = "W" -> 1 [] a = "A" -> 2 [] a = "B" -> 3 [] OTHER -> 0

TransactionHash(sender, receiver, amount, timestamp, meta) ==
  SHA256(<<sender, receiver, amount, timestamp, MetaString(meta)>>,
         AddressCode(sender) + 3 * AddressCode(receiver) + amount + timestamp + MetaCode(meta))

\* ---- signatures (secp256k1): a signature names the key that made it and the message ----
NoSignature == [signer |-> Undefined, msg |-> <<>>]

Sign(key, msg) == [signer |-> key, msg |-> msg.body]

Verify(publicKey, msg, signature) == signature.signer = publicKey /\ signature.msg = msg.body

\* ---- Transaction ----
Transaction(params) ==
  LET timestamp == IF params.timestamp = NoTime THEN now ELSE params.timestamp
  IN  [sender |-> params.sender, receiver |-> params.receiver, amount |-> params.amount,
       meta |-> params.meta, signature |-> params.signature, timestamp |-> timestamp,
       hash |-> TransactionHash(params.sender, params.receiver, params.amount, timestamp, params.meta)]

\* ---- Block and its hash ----
\* mutant: the string hashed names each transaction by its recorded hash alone
JSONstringifyHashes(transactions) ==
  [i \in 1..Len(transactions) |-> <<transactions[i].hash>>]

\* JSON.stringify(transactions): every field of every transaction, in order
JSONstringify(transactions) ==
  [i \in 1..Len(transactions) |->
     <<transactions[i].sender, transactions[i].receiver, transactions[i].amount,
       transactions[i].meta, transactions[i].hash, transactions[i].timestamp,
       transactions[i].signature>>]

RECURSIVE TransactionsCode(_)
TransactionsCode(transactions) ==
  IF transactions = <<>> THEN 0
  ELSE LeadCode(Head(transactions).hash.lead) + Head(transactions).amount
       + TransactionsCode(Tail(transactions))

\* the numeric code of previousHash + timestamp + JSON.stringify(transactions) + nonce
BlockCode(timestamp, transactions, previousHash, nonce) ==
  LeadCode(previousHash.lead) + timestamp + TransactionsCode(transactions) + nonce

calculateBlockHash(timestamp, transactions, previousHash, nonce) ==
  SHA256(<<previousHash, timestamp, JSONstringify(transactions), nonce>>,
         BlockCode(timestamp, transactions, previousHash, nonce))

\* mutant: the block is assembled from the first transaction alone, as if the rest of the
\* list had arrived after the block was built
BlockOfFirst(timestamp, transactions, previousHash) ==
  LET first == IF transactions = <<>> THEN <<>> ELSE <<Head(transactions)>>
  IN  [timestamp |-> timestamp, transactions |-> first, previousHash |-> previousHash,
       hash |-> calculateBlockHash(timestamp, first, previousHash, 0)]

Block(timestamp, transactions, previousHash) ==
  [timestamp |-> timestamp, transactions |-> transactions, previousHash |-> previousHash,
   hash |-> calculateBlockHash(timestamp, transactions, previousHash, 0)]

\* ---- proof of work ----
Target == [i \in 1..DIFFICULTY |-> 0]

\* The loop of mineBlock.  It looks only at the leading characters of each digest, so the
\* search computes only those: `code` is the code of the block's string with nonce 0, and
\* the string with nonce n has code `code + n`.
\* mutant: the loop increments the nonce before it tests the digest
RECURSIVE mineFromNext(_, _)
mineFromNext(code, n) ==
  IF HashLead(code + n + 1) # Target
  THEN mineFromNext(code, n + 1)
  ELSE n + 1

RECURSIVE mineFrom(_, _)
mineFrom(code, n) ==
  IF HashLead(code + n) # Target
  THEN mineFrom(code, n + 1)
  ELSE n

mineBlock(block) ==
  LET n == mineFrom(BlockCode(block.timestamp, block.transactions, block.previousHash, 0), 0)
  IN  [minedBlockHash |-> calculateBlockHash(block.timestamp, block.transactions, block.previousHash, n),
       nonce |-> n]

\* ---- balance query ----
RECURSIVE balanceOfTransactions(_, _)
balanceOfTransactions(transactions, address) ==
  IF transactions = <<>> THEN 0
  ELSE LET trans == Head(transactions)
       IN  (IF trans.sender = address THEN 0 - trans.amount ELSE 0)
           + (IF trans.receiver = address THEN trans.amount ELSE 0)
           + balanceOfTransactions(Tail(transactions), address)

RECURSIVE balanceOfBlocks(_, _)
balanceOfBlocks(blocks, address) ==
  IF blocks = <<>> THEN 0
  ELSE balanceOfTransactions(Head(blocks).transactions, address)
       + balanceOfBlocks(Tail(blocks), address)

\* mutant: the pending pool counts towards the balance
getBalanaceOfAddressWithPending(address) ==
  balanceOfBlocks(chain, address) + balanceOfTransactions(pendingTransactions, address)

\* reads the ledger's chain, whatever chain is being validated
getBalanaceOfAddress(address) == balanceOfBlocks(chain, address)

\* ---- validation ----
\* mutant: the signature, once present, is not verified
isTransactionValidUnverified(transaction) ==
  IF transaction.sender = Undefined THEN TRUE
  ELSE IF transaction.sender = transaction.receiver THEN FALSE
  ELSE IF transaction.amount < 1 THEN FALSE
  ELSE IF getBalanaceOfAddress(transaction.sender) - transaction.amount < 0 THEN FALSE
  ELSE transaction.signature # NoSignature

isTransactionValid(transaction) ==
  IF transaction.sender = Undefined THEN TRUE
  ELSE IF transaction.sender = transaction.receiver THEN FALSE
  ELSE IF transaction.amount < 1 THEN FALSE
  ELSE IF getBalanaceOfAddress(transaction.sender) - transaction.amount < 0 THEN FALSE
  ELSE IF transaction.signature = NoSignature THEN FALSE
  ELSE Verify(transaction.sender,
              TransactionHash(transaction.sender, transaction.receiver, transaction.amount,
                              transaction.timestamp, transaction.meta),
              transaction.signature)

\* the line isTransactionValid writes to the console ("" when it writes none)
isTransactionValidLog(transaction) ==
  IF transaction.sender = Undefined THEN ""
  ELSE IF transaction.sender = transaction.receiver THEN "sender is the same as receiver!"
  ELSE IF transaction.amount < 1 THEN "amount is less then 1!"
  ELSE IF getBalanaceOfAddress(transaction.sender) - transaction.amount < 0 THEN "sender balance is too low!"
  ELSE IF transaction.signature = NoSignature THEN "missing transaction signature!"
  ELSE ""

hasValidTransactions(transactions) ==
  \A i \in 1..Len(transactions) : isTransactionValid(transactions[i])

\* mutant: the transactions of the blocks are not validated
isChainValidLinks(c) ==
  \A i \in 2..Len(c) :
    /\ c[i].hash = calculateBlockHash(c[i].timestamp, c[i].transactions, c[i].previousHash, c[i].nonce)
    /\ c[i].previousHash = c[i - 1].hash

isChainValid(c) ==
  \A i \in 2..Len(c) :
    /\ hasValidTransactions(c[i].transactions)
    /\ c[i].hash = calculateBlockHash(c[i].timestamp, c[i].transactions, c[i].previousHash, c[i].nonce)
    /\ c[i].previousHash = c[i - 1].hash

\* the last line isChainValid writes to the console ("" when it writes none)
isChainValidLog(c) ==
  IF isChainValid(c) THEN ""
  ELSE LET i == CHOOSE k \in 2..Len(c) :
                  /\ ~isChainValid(SubSeq(c, 1, k))
                  /\ isChainValid(SubSeq(c, 1, k - 1))
       IN  IF ~hasValidTransactions(c[i].transactions) THEN "chain contains invalid transactions!"
           ELSE IF c[i].hash # calculateBlockHash(c[i].timestamp, c[i].transactions, c[i].previousHash, c[i].nonce)
                THEN "hash validation failed!"
           ELSE "current block hash and prev block hash dont match!"

\* ---- genesis ----
NoneHash == [body |-> <<"none">>, lead |-> <<>>]

\* mutant: the genesis block is pushed whatever the chain already holds
addGenesisBlockToAny(c, timestamp) ==
  LET block == Block(timestamp, <<>>, NoneHash)
      hash == calculateBlockHash(timestamp, <<>>, NoneHash, 0)
  IN  Append(c, [timestamp |-> timestamp, transactions |-> block.transactions,
                 previousHash |-> NoneHash, hash |-> hash, nonce |-> 0])

addGenesisBlockTo(c, timestamp) ==
  LET block == Block(timestamp, <<>>, NoneHash)
      hash == calculateBlockHash(timestamp, <<>>, NoneHash, 0)
  IN  IF Len(c) = 0
      THEN Append(c, [timestamp |-> timestamp, transactions |-> block.transactions,
                      previousHash |-> NoneHash, hash |-> hash, nonce |-> 0])
      ELSE c

Call(fn, ret, log) == [fn |-> fn, ret |-> ret, log |-> log]

Init ==
  /\ now = 0
  /\ chain = addGenesisBlockTo(<<>>, 0)
  /\ pendingTransactions = <<>>
  /\ lastCall = Call("addGenesisBlock", "false", "")

addGenesisBlock ==
  /\ chain' = addGenesisBlockTo(chain, now)
  /\ lastCall' = Call("addGenesisBlock", "false", "")
  /\ UNCHANGED <<pendingTransactions, now>>

\* ---- mining ----
RewardTransaction(minigRewardAddress) ==
  Transaction([sender |-> Undefined, receiver |-> minigRewardAddress, amount |-> MINING_REWARD,
               meta |-> RewardMeta, timestamp |-> NoTime, signature |-> NoSignature])

\* the block of lines 85, 90 and 92: the candidate's fields, the mined hash and the nonce
MinedBlock(block, mined) ==
  [timestamp |-> block.timestamp, transactions |-> block.transactions,
   previousHash |-> block.previousHash, hash |-> mined.minedBlockHash, nonce |-> mined.nonce]

\* mutant: the block pushed carries the candidate's hash, computed before the search
PushedBlockUnmined(block, mined) == [MinedBlock(block, mined) EXCEPT !.hash = block.hash]

\* line 92: the block pushed on the chain
PushedBlock(block, mined) == MinedBlock(block, mined)

\* mutant: a mine that does not commit empties the pool all the same
RejectedClearsPool(log) ==
  /\ lastCall' = Call("minePendingTransactions", "false", log)
  /\ pendingTransactions' = <<>>
  /\ UNCHANGED <<chain, now>>

\* a mine that does not commit: it returns false and touches neither array
Rejected(log) ==
  /\ lastCall' = Call("minePendingTransactions", "false", log)
  /\ UNCHANGED <<chain, pendingTransactions, now>>

\* mutant: the block mined takes the place of the chain's last block
minePendingTransactionsInPlace(minigRewardAddress) ==
  LET previousHash == chain[Len(chain)].hash
      miningRewardTransaction == RewardTransaction(minigRewardAddress)
      block == Block(now, <<miningRewardTransaction>> \o pendingTransactions, previousHash)
      mined == mineBlock(block)
  IN  IF ~hasValidTransactions(pendingTransactions)
      THEN Rejected("pending transactions are invalid!")
      ELSE /\ chain' = [chain EXCEPT ![Len(chain)] = PushedBlock(block, mined)]
           /\ pendingTransactions' = <<>>
           /\ now' = now + 1
           /\ lastCall' = Call("minePendingTransactions", "false", "")

\* The clock: both stamps of a mine request are read before the nonce search, and the
\* search of a mine that commits takes the clock to the next millisecond.
minePendingTransactions(minigRewardAddress) ==
  LET previousHash == chain[Len(chain)].hash
      miningRewardTransaction == RewardTransaction(minigRewardAddress)
      block == Block(now, <<miningRewardTransaction>> \o pendingTransactions, previousHash)
      mined == mineBlock(block)
      validated == calculateBlockHash(block.timestamp, block.transactions, previousHash, mined.nonce)
      validatedChain == Append(chain, MinedBlock(block, mined))
  IN  IF ~hasValidTransactions(pendingTransactions)
      THEN Rejected("pending transactions are invalid!")
      ELSE IF validated = mined.minedBlockHash /\ isChainValid(chain)
           THEN IF isChainValid(validatedChain)
                THEN /\ chain' = Append(chain, PushedBlock(block, mined))
                     /\ pendingTransactions' = <<>>
                     /\ now' = now + 1
                     /\ lastCall' = Call("minePendingTransactions", "false", "")
                ELSE Rejected(isChainValidLog(validatedChain))
           ELSE Rejected(IF validated = mined.minedBlockHash THEN isChainValidLog(chain) ELSE "")

MinePending ==
  \E minigRewardAddress \in Miners :
    /\ minePendingTransactions(minigRewardAddress)
    /\ Len(chain') <= MaxChain

\* ---- submission ----
\* mutant: the transaction is pushed whatever the validator says
addPendingTransactionUnchecked(params) ==
  LET transaction == Transaction(params)
  IN  /\ pendingTransactions' = Append(pendingTransactions, transaction)
      /\ lastCall' = Call("addPendingTransaction", "undefined", isTransactionValidLog(transaction))
      /\ UNCHANGED <<chain, now>>

addPendingTransaction(params) ==
  LET transaction == Transaction(params)
  IN  /\ IF isTransactionValid(transaction)
         THEN pendingTransactions' = Append(pendingTransactions, transaction)
         ELSE UNCHANGED pendingTransactions
      /\ lastCall' = Call("addPendingTransaction", "undefined", isTransactionValidLog(transaction))
      /\ UNCHANGED <<chain, now>>

Params(sender, receiver, amount, timestamp, meta, signature) ==
  [sender |-> sender, receiver |-> receiver, amount |-> amount, timestamp |-> timestamp,
   meta |-> meta, signature |-> signature]

\* what signTransaction returns for the holder of `key`
Signed(key, sender, receiver, amount, timestamp, meta) ==
  Params(sender, receiver, amount, timestamp, meta,
         Sign(key, TransactionHash(sender, receiver, amount, timestamp, meta)))

\* the arguments a caller may pass at time t: a transfer signed by its sender, stamped now
\* or earlier (a signed transfer sent again); a transfer to oneself, of nothing, unsigned,
\* signed by somebody else, or altered after it was signed; a transaction that names no sender
\* the millisecond before t
Earlier(t) == IF t = 0 THEN 0 ELSE t - 1

SignedTransfers(t) ==
  UNION {{Signed(sender, sender, "B", TransferAmount, timestamp, meta),
          Signed(sender, sender, sender, TransferAmount, timestamp, meta)} :
         sender \in Miners, timestamp \in {t, Earlier(t)}, meta \in Metas}

BadTransfers(t) ==
  UNION {{Signed(sender, sender, "B", 0, t, Undefined),
          Params(sender, "B", TransferAmount, t, Undefined, NoSignature),
          Signed(Forger, sender, "B", TransferAmount, t, Undefined),
          [Signed(sender, sender, sender, TransferAmount, t, Undefined) EXCEPT !.receiver = "B"]} :
         sender \in {"W"}}

Senderless(t) ==
  {Params(Undefined, "B", amount, NoTime, Undefined, NoSignature) : amount \in Amounts}

Submissions(t) == SignedTransfers(t) \cup BadTransfers(t) \cup Senderless(t)

\* the transactions admitted so far that are still in the ledger
RECURSIVE CountTransactions(_)
CountTransactions(blocks) ==
  IF blocks = <<>> THEN 0
  ELSE Len(Head(blocks).transactions) - 1 + CountTransactions(Tail(blocks))

Admitted == Len(pendingTransactions) + CountTransactions(Tail(chain))

AddPending ==
  /\ Admitted < MaxTransactions
  /\ \E params \in Submissions(now) : addPendingTransaction(params)

\* ---- request handlers ----
\* Each handler is a synchronous function: the server runs it from its first line to its
\* last before it takes the next request, so a request is one step, and concurrent
\* requests are steps in some order.
myWalletAddress == "W"

\* GET /minePending
minePending == minePendingTransactions(myWalletAddress)

\* the bodies of POST /sendTransaction: `signature` carries the private key of an address
Bodies ==
  [sender : Miners \cup {Undefined}, receiver : {"B"}, amount : Amounts,
   signature : Miners \cup {Forger}]

\* POST /sendTransaction: signTransaction throws when the key is not the sender's, and
\* the request then ends without a call of addPendingTransaction
sendTransaction(body) ==
  IF body.signature # body.sender
  THEN UNCHANGED vars
  ELSE addPendingTransaction(Signed(body.signature, body.sender, body.receiver, body.amount,
                                    now, Undefined))

Next == AddPending \/ MinePending \/ addGenesisBlock

Spec == Init /\ [][Next]_vars

\* ======================= properties =======================

\* every transaction of the chain, block after block, then those of the pool
RECURSIVE ChainTransactions(_)
ChainTransactions(blocks) ==
  IF blocks = <<>> THEN <<>> ELSE Head(blocks).transactions \o ChainTransactions(Tail(blocks))

LastBlock == chain[Len(chain)]

\* C1: whatever addPendingTransaction and minePendingTransactions calls were made,
\* isChainValid accepts the ledger's chain.
C1_ChainAlwaysValid == isChainValid(chain)

\* C2: no address ever has a negative balance.
C2_NoNegativeBalance == \A a \in Addresses : getBalanaceOfAddress(a) >= 0

\* C3: every block after the first names the hash of the block before it, and its own
\* hash is calculateBlockHash of its timestamp, transactions, previousHash and nonce.
C3_HashLinkage ==
  \A i \in 2..Len(chain) :
    /\ chain[i].previousHash = chain[i - 1].hash
    /\ chain[i].hash = calculateBlockHash(chain[i].timestamp, chain[i].transactions,
                                          chain[i].previousHash, chain[i].nonce)

\* a chain of three blocks whose last block carries a transfer and needed a search
C3_Witness ==
  /\ Len(chain) >= 3
  /\ Len(LastBlock.transactions) >= 2
  /\ \E i \in 2..Len(chain) : chain[i].nonce > 0

\* the places of the committed transactions: <<block, index in the block>>
CommittedPlaces ==
  UNION {{<<i, j>> : j \in 1..Len(chain[i].transactions)} : i \in 1..Len(chain)}

RECURSIVE SumOfAmounts(_)
SumOfAmounts(places) ==
  IF places = {} THEN 0
  ELSE LET p == CHOOSE q \in places : TRUE
       IN  chain[p[1]].transactions[p[2]].amount + SumOfAmounts(places \ {p})

Received(a) == SumOfAmounts({p \in CommittedPlaces : chain[p[1]].transactions[p[2]].receiver = a})

Sent(a) == SumOfAmounts({p \in CommittedPlaces : chain[p[1]].transactions[p[2]].sender = a})

\* C4: the balance of an address is what the committed transactions paid to it minus what
\* the committed transactions took from it; pending transactions do not count.
C4_BalanceIsReceivedMinusSent ==
  \A a \in Addresses : getBalanaceOfAddress(a) = Received(a) - Sent(a)

\* transfers are committed and a transaction that moves value is pending
C4_Witness ==
  /\ \E a \in Addresses : Sent(a) > 0 /\ Received(a) > 0
  /\ \E i \in 1..Len(pendingTransactions) : pendingTransactions[i].amount > 0

Candidates == {Transaction(params) : params \in Submissions(now)}

SignatureVerifies(tx) ==
  /\ tx.signature # NoSignature
  /\ Verify(tx.sender, TransactionHash(tx.sender, tx.receiver, tx.amount, tx.timestamp, tx.meta),
            tx.signature)

Defective(tx) ==
  \/ tx.amount < 1
  \/ tx.sender = tx.receiver
  \/ ~SignatureVerifies(tx)
  \/ getBalanaceOfAddress(tx.sender) - tx.amount < 0

\* C6 as stated: isTransactionValid is false for every transaction with amount < 1, with
\* sender = receiver, with a signature that does not verify, or with too small a balance.
C6_DefectiveAlwaysRejected ==
  \A tx \in Candidates : Defective(tx) => ~isTransactionValid(tx)

\* C6 amended: the same, for the transactions that name a sender.
C6_DefectiveTransferRejected ==
  \A tx \in Candidates : (tx.sender # Undefined /\ Defective(tx)) => ~isTransactionValid(tx)

\* a funded sender's transfer was just refused for its signature alone
C6_Witness ==
  /\ lastCall.fn = "addPendingTransaction"
  /\ lastCall.log = "missing transaction signature!"
  /\ \E tx \in Candidates :
        /\ tx.sender # Undefined /\ tx.sender # tx.receiver /\ tx.amount >= 1
        /\ getBalanaceOfAddress(tx.sender) - tx.amount >= 0
        /\ ~SignatureVerifies(tx)

\* C7: a mine request made while the pool is empty appends one block that holds the
\* reward transaction alone, and the chain it leaves passes isChainValid.
C7_EmptyPoolMineCommits ==
  [][\A W \in Miners :
       (pendingTransactions = <<>> /\ minePendingTransactions(W))
       => /\ Len(chain') = Len(chain) + 1
          /\ chain'[Len(chain')].transactions = <<RewardTransaction(W)>>
          /\ isChainValid(chain)']_vars

\* C8: minePendingTransactions returns false exactly when it appended no block.
C8_ReturnTellsOutcome ==
  [][\A W \in Miners :
       minePendingTransactions(W) => ((lastCall'.ret = "false") <=> (chain' = chain))]_vars

\* C9: a mine request appends one block and empties the pool, or leaves chain and pool as
\* they were; and no step at all empties the pool without appending a block or removes
\* only some of its transactions.
C9_MineAllOrNothing ==
  [][/\ \A W \in Miners :
          (lastCall'.fn = "minePendingTransactions" /\ minePendingTransactions(W))
          => \/ /\ Len(chain') = Len(chain) + 1
                /\ SubSeq(chain', 1, Len(chain)) = chain
                /\ pendingTransactions' = <<>>
             \/ /\ chain' = chain
                /\ pendingTransactions' = pendingTransactions
     /\ pendingTransactions' # pendingTransactions
          => \/ pendingTransactions' = <<>> /\ Len(chain') = Len(chain) + 1
             \/ /\ Len(pendingTransactions') = Len(pendingTransactions) + 1
                /\ SubSeq(pendingTransactions', 1, Len(pendingTransactions)) = pendingTransactions]_vars

\* a mine request was just refused and the pool still holds its transactions
C9_Witness ==
  /\ lastCall.fn = "minePendingTransactions"
  /\ lastCall.log = "chain contains invalid transactions!"
  /\ pendingTransactions # <<>>

LedgerTransactions == ChainTransactions(chain) \o pendingTransactions

\* C10: no transaction hash occurs twice in the pool, twice in the chain, or in both.
C10_NoHashTwice ==
  \A i, j \in 1..Len(LedgerTransactions) :
    i # j => LedgerTransactions[i].hash # LedgerTransactions[j].hash

\* the blocks that name no predecessor
GenesisBlocks == {i \in 1..Len(chain) : chain[i].previousHash = NoneHash}

\* C11: the chain holds exactly one genesis block, its first, with previousHash "none",
\* no transactions and nonce 0; no later block has previousHash "none"; isChainValid
\* accepts the chain made of the genesis block alone; and a call of addGenesisBlock on
\* the chain, which is never empty, changes neither the chain nor the pool.
C11_OneGenesis ==
  /\ [](/\ GenesisBlocks = {1}
        /\ chain[1].transactions = <<>>
        /\ chain[1].nonce = 0
        /\ isChainValid(<<chain[1]>>))
  /\ [][lastCall'.fn = "addGenesisBlock"
          => (chain' = chain /\ pendingTransactions' = pendingTransactions)]_vars

\* addGenesisBlock was just called on a chain of several blocks, the pool not empty
C11_Witness ==
  /\ lastCall.fn = "addGenesisBlock"
  /\ Len(chain) >= 2
  /\ pendingTransactions # <<>>

\* the fields of a transaction an intruder may change, and the values they may be given
TamperFields == {"sender", "receiver", "amount", "timestamp", "meta"}

TamperValues(field) ==
  CASE field = "sender" -> Addresses \cup {Undefined}
    [] field = "receiver" -> Addresses
    [] field = "amount" -> Amounts \cup {MINING_REWARD}
    [] field = "timestamp" -> 0..(now + 1)
    [] field = "meta" -> Metas \cup {RewardMeta}

\* the chain `c` with one field of the transaction at place p = <<block, index>> changed
Tamper(c, p, field, value) ==
  [c EXCEPT ![p[1]].transactions[p[2]][field] = value]

\* the state a mine request leaves: the chain and the clock change in no other step, so
\* every chain the mine operation produces is the chain of such a state
AfterMine == lastCall.fn = "minePendingTransactions" /\ pendingTransactions = <<>>

\* C12: take a chain the mine operation produced and change one field (sender, receiver,
\* amount, timestamp or meta) of one committed transaction, the reward or a transfer, in
\* the last block or an earlier one: the hash recomputed for that block differs from the
\* hash the chain records for it, and isChainValid rejects the tampered chain.
C12_TamperEvident ==
  AfterMine =>
    \A p \in CommittedPlaces : \A field \in TamperFields :
      \A value \in TamperValues(field) \ {chain[p[1]].transactions[p[2]][field]} :
        LET tampered == Tamper(chain, p, field, value)
            block == tampered[p[1]]
        IN  /\ calculateBlockHash(block.timestamp, block.transactions, block.previousHash,
                                  block.nonce) # chain[p[1]].hash
            /\ ~isChainValid(tampered)

\* a mine just committed a transfer, and the chain holds an earlier block with its reward
C12_Witness ==
  /\ AfterMine
  /\ Len(chain) >= 3
  /\ \E j \in 1..Len(LastBlock.transactions) : LastBlock.transactions[j].sender # Undefined

\* C13: the chain only grows at its end: every step leaves the blocks it held as they
\* were, in their places, and adds at most one block after them (so the chain of a state
\* is a prefix of the chain of every later state); a call of addPendingTransaction leaves
\* the chain as it was.
C13_AppendOnly ==
  [][/\ Len(chain) <= Len(chain')
     /\ Len(chain') <= Len(chain) + 1
     /\ SubSeq(chain', 1, Len(chain)) = chain
     /\ lastCall'.fn = "addPendingTransaction" => chain' = chain]_vars

\* a transaction was just admitted with three blocks in the chain
C13_Witness ==
  /\ lastCall.fn = "addPendingTransaction"
  /\ lastCall.log = ""
  /\ pendingTransactions # <<>>
  /\ Len(chain) >= 3

\* a transfer that names a sender other than its receiver, moves at least 1, is covered by
\* the sender's balance and carries the sender's signature
FundedSignedTransfer(tx) ==
  /\ tx.sender # Undefined
  /\ tx.sender # tx.receiver
  /\ tx.amount >= 1
  /\ getBalanaceOfAddress(tx.sender) >= tx.amount
  /\ SignatureVerifies(tx)

\* C14: a signed transfer of m from A to B with balance(A) >= m is admitted to the pool
\* when it is submitted; and when it is the only pending transaction, the next mine
\* request, rewarding an address other than A and B, commits it: the new block holds it,
\* the balance of A is lower by m and the balance of B higher by m than before the mine.
C14_TransferCommitted ==
  [][/\ \A params \in Submissions(now) :
          (/\ lastCall'.fn = "addPendingTransaction"
           /\ FundedSignedTransfer(Transaction(params))
           /\ addPendingTransaction(params))
          => pendingTransactions' = Append(pendingTransactions, Transaction(params))
     /\ \A W \in Miners :
          (/\ lastCall'.fn = "minePendingTransactions"
           /\ Len(pendingTransactions) = 1
           /\ FundedSignedTransfer(pendingTransactions[1])
           /\ W \notin {pendingTransactions[1].sender, pendingTransactions[1].receiver}
           /\ minePendingTransactions(W))
          => LET tx == pendingTransactions[1]
             IN  /\ Len(chain') = Len(chain) + 1
                 /\ chain'[Len(chain')].transactions = <<RewardTransaction(W), tx>>
                 /\ balanceOfBlocks(chain', tx.sender) = getBalanaceOfAddress(tx.sender) - tx.amount
                 /\ balanceOfBlocks(chain', tx.receiver) = getBalanaceOfAddress(tx.receiver) + tx.amount]_vars

\* C15: the block a mine request for W commits names the hash of the block that was last
\* when the request started, and holds the reward followed by the pool's transactions in
\* the order of their admission; the reward names no sender, pays MINING_REWARD to W, and
\* is the only transaction of the block that names no sender.
C15_BlockComposition ==
  [][\A W \in Miners :
       (/\ lastCall'.fn = "minePendingTransactions"
        /\ chain' # chain
        /\ minePendingTransactions(W))
       => LET block == chain'[Len(chain')]
              reward == block.transactions[1]
          IN  /\ block.previousHash = chain[Len(chain)].hash
              /\ block.transactions = <<reward>> \o pendingTransactions
              /\ reward.sender = Undefined
              /\ reward.receiver = W
              /\ reward.amount = MINING_REWARD
              /\ \A j \in 2..Len(block.transactions) :
                    block.transactions[j].sender # Undefined]_vars

\* the candidate block a mine request for W would build in this state
Candidate(W) ==
  Block(now, <<RewardTransaction(W)>> \o pendingTransactions, chain[Len(chain)].hash)

\* the digest of the block's fields with nonce n begins with DIFFICULTY characters '0'
LeadingZeros(block, n) ==
  LET hash == calculateBlockHash(block.timestamp, block.transactions, block.previousHash, n)
  IN  \A k \in 1..DIFFICULTY : hash.lead[k] = 0

\* C16: for the candidate block of a mine request, mineBlock returns the smallest nonce
\* n >= 0 whose digest begins with DIFFICULTY zeros, together with that digest, so the
\* hash recomputed from the returned nonce equals the mined hash; and every block of the
\* chain after the first has a hash with DIFFICULTY leading zeros.
C16_SmallestNonce ==
  /\ \A W \in Miners :
        LET block == Candidate(W)
            mined == mineBlock(block)
        IN  /\ mined.nonce >= 0
            /\ LeadingZeros(block, mined.nonce)
            /\ \A n \in 0..(mined.nonce - 1) : ~LeadingZeros(block, n)
            /\ mined.minedBlockHash
                 = calculateBlockHash(block.timestamp, block.transactions, block.previousHash,
                                      mined.nonce)
  /\ \A i \in 2..Len(chain) : \A k \in 1..DIFFICULTY : chain[i].hash.lead[k] = 0

\* a block was committed after a search of several steps, and the next candidate, which
\* carries a pending transaction, needs a search too
C16_Witness ==
  /\ \E i \in 2..Len(chain) : chain[i].nonce > 1
  /\ pendingTransactions # <<>>
  /\ \E W \in Miners : mineBlock(Candidate(W)).nonce > 0

\* the rules of the validator, with the sender's balance read from the blocks of `ledger`
PassesAgainst(ledger, tx) ==
  \/ tx.sender = Undefined
  \/ /\ tx.sender # tx.receiver
     /\ tx.amount >= 1
     /\ balanceOfBlocks(ledger, tx.sender) - tx.amount >= 0
     /\ SignatureVerifies(tx)

\* the chains handed to isChainValid: the ledger's chain and its prefixes, and each of
\* them with the recorded hash or the previousHash of one block replaced, or with the
\* timestamp and nonce of its first block changed
Replaced(c) ==
  {[c EXCEPT ![i].hash = NoneHash] : i \in 1..Len(c)}
    \cup {[c EXCEPT ![i].previousHash = c[i].hash] : i \in 1..Len(c)}
    \cup {[c EXCEPT ![1].timestamp = now + 1, ![1].nonce = 1]}

Prefixes == {SubSeq(chain, 1, k) : k \in 1..Len(chain)}

ChainsToValidate == Prefixes \cup UNION {Replaced(c) : c \in Prefixes}

\* C17: isChainValid(c) is true exactly when every block of c after the first has only
\* transactions that pass the validator with the balances of the ledger's chain as it is
\* now, records the hash calculateBlockHash gives for its fields, and names the hash of
\* the block before it; nothing is asked of the first block.
C17_ChainValidExactly ==
  AfterMine =>
    \A c \in ChainsToValidate :
      isChainValid(c) <=>
        \A i \in 2..Len(c) :
          /\ \A j \in 1..Len(c[i].transactions) : PassesAgainst(chain, c[i].transactions[j])
          /\ c[i].hash = calculateBlockHash(c[i].timestamp, c[i].transactions,
                                            c[i].previousHash, c[i].nonce)
          /\ c[i].previousHash = c[i - 1].hash

\* the chain is rejected for a transfer alone that the balances of the blocks before it
\* covered: its hashes and links are right
C17_Witness ==
  /\ AfterMine
  /\ ~isChainValid(chain)
  /\ \A i \in 2..Len(chain) :
        /\ chain[i].hash = calculateBlockHash(chain[i].timestamp, chain[i].transactions,
                                              chain[i].previousHash, chain[i].nonce)
        /\ chain[i].previousHash = chain[i - 1].hash
        /\ \A j \in 1..Len(chain[i].transactions) :
              PassesAgainst(SubSeq(chain, 1, i - 1), chain[i].transactions[j])

\* C18: every transaction of the pool and of the chain moves at least 1 and, when it
\* names a sender, names a receiver other than the sender.
C18_AmountAndParties ==
  \A i \in 1..Len(LedgerTransactions) :
    LET tx == LedgerTransactions[i]
    IN  /\ tx.amount >= 1
        /\ tx.sender # Undefined => tx.sender # tx.receiver

RECURSIVE SumOfBalances(_)
SumOfBalances(addresses) ==
  IF addresses = {} THEN 0
  ELSE LET a == CHOOSE b \in addresses : TRUE
       IN  getBalanaceOfAddress(a) + SumOfBalances(addresses \ {a})

\* C19: the balances of all addresses add up to MINING_REWARD for each block of the chain
\* after the first.
C19_SupplyConserved == SumOfBalances(Addresses) = MINING_REWARD * (Len(chain) - 1)

\* the transactions of a block, as a set
BlockTransactions(block) == {block.transactions[j] : j \in 1..Len(block.transactions)}

\* C20: requests are handled one at a time, whatever their order.  A transaction leaves
\* the pool only in a step that appends one block, and that block holds it; a
\* /minePending request leaves chain and pool as they were or appends one block that names
\* the last block's hash and holds the reward and the whole pool, which it empties; a
\* /sendTransaction request leaves the chain as it was and the pool as it was or longer by
\* the transaction sent; and no two blocks of the chain name the same previousHash.
C20_RequestsAtomic ==
  /\ [](\A i, j \in 1..Len(chain) : i # j => chain[i].previousHash # chain[j].previousHash)
  /\ [][/\ \A i \in 1..Len(pendingTransactions) :
             \/ /\ i <= Len(pendingTransactions')
                /\ pendingTransactions'[i] = pendingTransactions[i]
             \/ /\ Len(chain') = Len(chain) + 1
                /\ pendingTransactions[i] \in BlockTransactions(chain'[Len(chain')])
        /\ (lastCall'.fn = "minePendingTransactions" /\ minePending)
             => \/ chain' = chain /\ pendingTransactions' = pendingTransactions
                \/ /\ Len(chain') = Len(chain) + 1
                   /\ SubSeq(chain', 1, Len(chain)) = chain
                   /\ chain'[Len(chain')].previousHash = chain[Len(chain)].hash
                   /\ chain'[Len(chain')].transactions
                        = <<RewardTransaction(myWalletAddress)>> \o pendingTransactions
                   /\ pendingTransactions' = <<>>
        /\ \A body \in Bodies :
             (lastCall'.fn = "addPendingTransaction" /\ sendTransaction(body))
             => /\ chain' = chain
                /\ \/ pendingTransactions' = pendingTransactions
                   \/ /\ Len(pendingTransactions') = Len(pendingTransactions) + 1
                      /\ SubSeq(pendingTransactions', 1, Len(pendingTransactions))
                           = pendingTransactions]_vars

\* a /minePending request just committed two transfers sent while the pool was not empty
C20_Witness ==
  /\ AfterMine
  /\ Len(chain) >= 3
  /\ Len(LastBlock.transactions) >= 3
  /\ LastBlock.transactions[1].receiver = myWalletAddress
  /\ \A j \in 2..Len(LastBlock.transactions) : LastBlock.transactions[j].sender # Undefined

====
